---- MODULE Spec2Model ----
(***************************************************************************)
(* OI reversal strategy: the signal detector, the position ledger kept by  *)
(* TradingDatabase, and the strategy cycle of OIReversalStrategy, together *)
(* with the snapshot analytics of StreetSmartTradingEngine.                *)
(*                                                                         *)
(* Python floats are modelled as exact rationals <<numerator,              *)
(* denominator>>; a Python exception is modelled as an explicit outcome    *)
(* (raised |-> "ZeroDivisionError", ...) that propagates as in the code.   *)
(* A NULL column / Python None is the empty sequence <<>>, a present value *)
(* v is <<v>>.                                                             *)
(***************************************************************************)
EXTENDS Integers, Sequences, FiniteSets, TLC

VARIABLES
    strategy_parameters,  \* table strategy_parameters: name -> value, in tenths
    strategy,             \* the constructed OIReversalStrategy (thresholds read once)
    market_data,          \* table market_data: number of persisted snapshots
    trading_signals,      \* table trading_signals: row id = index
    positions,            \* table positions: row id = index (entry_time order)
    last,                 \* outcome of the last ledger operation / cycle
    call                  \* last pure-function application: [fn, in, out]

vars == <<strategy_parameters, strategy, market_data, trading_signals, positions, last, call>>

ledgerVars == <<strategy_parameters, strategy, market_data, trading_signals, positions, last>>

-----------------------------------------------------------------------------
(* Bounds of the model *)

MaxLedger == 2        \* rows allowed in trading_signals / positions
MaxSnapshots == 2     \* rows allowed in market_data (cycles that persist)

-----------------------------------------------------------------------------
(* Exact rational arithmetic standing for Python float arithmetic *)

Abs(x) == IF x < 0 THEN -x ELSE x

RECURSIVE GCD(_, _)
GCD(a, b) == IF b = 0 THEN a ELSE GCD(b, a % b)

Rat(n, d) ==
    LET s == IF d < 0 THEN -1 ELSE 1
        g == GCD(Abs(n), Abs(d))
    IN  <<(s * n) \div g, (s * d) \div g>>

RInt(k) == <<k, 1>>
RAdd(a, b) == Rat(a[1] * b[2] + b[1] * a[2], a[2] * b[2])
RSub(a, b) == Rat(a[1] * b[2] - b[1] * a[2], a[2] * b[2])
RMul(a, b) == Rat(a[1] * b[1], a[2] * b[2])
RDiv(a, b) == Rat(a[1] * b[2], a[2] * b[1])
RLt(a, b) == a[1] * b[2] < b[1] * a[2]
RLe(a, b) == a[1] * b[2] <= b[1] * a[2]
RMin(a, b) == IF RLt(b, a) THEN b ELSE a
RMax(a, b) == IF RLt(a, b) THEN b ELSE a
RTrunc(a) == IF a[1] >= 0 THEN a[1] \div a[2] ELSE -((-a[1]) \div a[2])

Tenths(t) == Rat(t, 10)

\* round(x, n) of a non-negative x: to the nearest multiple of 1/scale, an exact
\* tie to the even multiple.
Round(x, scale) ==
    LET y == RMul(x, RInt(scale))
        f == y[1] \div y[2]
        twice == 2 * (y[1] - f * y[2])
    IN  IF twice > y[2] \/ (twice = y[2] /\ f % 2 = 1) THEN Rat(f + 1, scale)
        ELSE Rat(f, scale)

-----------------------------------------------------------------------------
(* Program constants *)

strike_interval == 50
base_confidence == 60
volume_reference == 10000
confidence_cap == 95
default_capital == 100000

default_params ==
    [oi_ratio_threshold |-> 20, profit_target_pct |-> 150, max_risk_per_trade |-> 20,
     atm_strikes_limit |-> 60, min_confidence |-> 700, oi_normalization_threshold |-> 15]

\* OIReversalStrategy.__init__: the thresholds are read once from the table.
NewStrategy(params, capital) ==
    [capital |-> capital,
     oi_ratio_threshold |-> Tenths(params.oi_ratio_threshold),
     profit_target_pct |-> Tenths(params.profit_target_pct),
     max_risk_per_trade |-> Tenths(params.max_risk_per_trade),
     atm_strikes_limit |-> RTrunc(Tenths(params.atm_strikes_limit)),
     min_confidence |-> Tenths(params.min_confidence),
     oi_normalization_threshold |-> Tenths(params.oi_normalization_threshold)]

-----------------------------------------------------------------------------
(* OIReversalStrategy: signal detection *)

NoRaise == "None"

\* _calculate_signal_confidence: [raised, value]; 1/oi_ratio raises when oi_ratio = 0.
CalculateSignalConfidence(self, strike, spot_price, oi_ratio) ==
    LET distance_from_spot == Abs(strike.strike - spot_price)
        window == self.atm_strikes_limit * strike_interval
        total_volume == strike.call_volume + strike.put_volume
        volume_factor == RMin(RInt(1), Rat(total_volume, volume_reference))
    IN  IF window = 0 THEN [raised |-> "ZeroDivisionError", value |-> RInt(0)]
        ELSE IF RLt(oi_ratio, Rat(1, 2)) /\ oi_ratio[1] = 0
        THEN [raised |-> "ZeroDivisionError", value |-> RInt(0)]
        ELSE IF self.oi_ratio_threshold[1] = 0
        THEN [raised |-> "ZeroDivisionError", value |-> RInt(0)]
        ELSE
        LET atm_factor == RMax(RInt(0), RSub(RInt(1), Rat(distance_from_spot, window)))
            extremity_factor ==
                IF RLt(oi_ratio, Rat(1, 2))
                THEN RMin(RInt(1), RDiv(RDiv(RInt(1), oi_ratio), self.oi_ratio_threshold))
                ELSE RMin(RInt(1), RDiv(oi_ratio, self.oi_ratio_threshold))
            conf == RAdd(RAdd(RAdd(RInt(base_confidence), RMul(atm_factor, RInt(20))),
                              RMul(extremity_factor, RInt(20))),
                         RMul(volume_factor, RInt(10)))
        IN  [raised |-> NoRaise, value |-> RMin(RInt(confidence_cap), conf)]

\* _classify_signal_strength
ClassifySignalStrength(oi_ratio) ==
    IF RLe(oi_ratio, Rat(3, 10)) THEN "VERY_STRONG"
    ELSE IF RLe(oi_ratio, Rat(4, 10)) THEN "STRONG"
    ELSE IF RLe(oi_ratio, Rat(5, 10)) THEN "MODERATE"
    ELSE "WEAK"

\* The ATM filter of detect_extreme_oi_concentration (a list comprehension).
AtmStrikes(self, strikes_data, spot_price) ==
    SelectSeq(strikes_data,
              LAMBDA s : Abs(s.strike - spot_price) <= self.atm_strikes_limit * strike_interval)

MakeSignal(type, strike, spot_price, oi_ratio, confidence, strength) ==
    [type |-> type, strike |-> strike.strike, entry_trigger |-> "OI_RATIO_2X",
     confidence |-> confidence, oi_ratio |-> oi_ratio,
     call_oi |-> strike.call_oi, put_oi |-> strike.put_oi,
     spot_price |-> spot_price, signal_strength |-> strength]

\* One iteration of the detector's loop: [raised, signals] with zero or one signal.
DetectOne(self, strike, spot_price) ==
    IF strike.call_oi = 0 THEN [raised |-> NoRaise, signals |-> <<>>]
    ELSE IF self.oi_ratio_threshold[1] = 0
    THEN [raised |-> "ZeroDivisionError", signals |-> <<>>]
    ELSE
    LET oi_ratio == Rat(strike.put_oi, strike.call_oi)
        c == CalculateSignalConfidence(self, strike, spot_price, oi_ratio)
    IN  IF RLt(oi_ratio, RDiv(RInt(1), self.oi_ratio_threshold))
        THEN IF c.raised # NoRaise THEN [raised |-> c.raised, signals |-> <<>>]
             ELSE IF RLe(self.min_confidence, c.value)
             THEN [raised |-> NoRaise,
                   signals |-> <<MakeSignal("PUT", strike, spot_price, oi_ratio, c.value,
                                            ClassifySignalStrength(oi_ratio))>>]
             ELSE [raised |-> NoRaise, signals |-> <<>>]
        ELSE IF RLt(self.oi_ratio_threshold, oi_ratio)
        THEN IF c.raised # NoRaise THEN [raised |-> c.raised, signals |-> <<>>]
             ELSE IF RLe(self.min_confidence, c.value)
             THEN [raised |-> NoRaise,
                   signals |-> <<MakeSignal("CALL", strike, spot_price, oi_ratio, c.value,
                                            ClassifySignalStrength(RDiv(RInt(1), oi_ratio)))>>]
             ELSE [raised |-> NoRaise, signals |-> <<>>]
        ELSE [raised |-> NoRaise, signals |-> <<>>]

RECURSIVE DetectLoop(_, _, _, _, _)
DetectLoop(self, atm, spot_price, i, acc) ==
    IF i > Len(atm) THEN [raised |-> NoRaise, signals |-> acc]
    ELSE LET r == DetectOne(self, atm[i], spot_price)
         IN  IF r.raised # NoRaise THEN [raised |-> r.raised, signals |-> <<>>]
             ELSE DetectLoop(self, atm, spot_price, i + 1, acc \o r.signals)

\* detect_extreme_oi_concentration: [raised, signals]; an exception in one
\* strike's confidence aborts the whole call.
DetectExtremeOIConcentration(self, strikes_data, spot_price) ==
    DetectLoop(self, AtmStrikes(self, strikes_data, spot_price), spot_price, 1, <<>>)

-----------------------------------------------------------------------------
(* OIReversalStrategy: exit evaluation and position sizing *)

LongCallGroup == {"LONG_CALL", "SHORT_PUT"}
PutBetGroup == {"SHORT_CALL", "LONG_PUT"}

\* _calculate_current_pnl_pct (entry_price is never 0 for a stored position)
CalculateCurrentPnlPct(position, current_spot) ==
    IF position.position_type \in LongCallGroup
    THEN Rat((current_spot - position.entry_price) * 100, position.entry_price)
    ELSE Rat((position.entry_price - current_spot) * 100, position.entry_price)

\* next((s for s in strikes_data if s['strike'] == strike_price), None): <<>> or <<s>>
FindStrike(strikes_data, strike_price) ==
    LET hits == SelectSeq(strikes_data, LAMBDA s : s.strike = strike_price)
    IN  IF hits = <<>> THEN <<>> ELSE <<hits[1]>>

\* Variant: the two position groups of the normalization check exchanged.
OINormalizedGroupsSwapped(self, position, strikes_data) ==
    LET found == FindStrike(strikes_data, position.strike_price)
    IN  /\ found # <<>>
        /\ found[1].call_oi > 0
        /\ LET current_oi_ratio == Rat(found[1].put_oi, found[1].call_oi)
           IN  IF position.position_type \in LongCallGroup
               THEN RLe(self.oi_normalization_threshold, current_oi_ratio)
               ELSE RLe(current_oi_ratio, RDiv(RInt(1), self.oi_normalization_threshold))

OINormalized(self, position, strikes_data) ==
    LET found == FindStrike(strikes_data, position.strike_price)
    IN  /\ found # <<>>
        /\ found[1].call_oi > 0
        /\ LET current_oi_ratio == Rat(found[1].put_oi, found[1].call_oi)
           IN  IF position.position_type \in PutBetGroup
               THEN RLe(self.oi_normalization_threshold, current_oi_ratio)
               ELSE /\ position.position_type \in LongCallGroup
                    /\ RLe(current_oi_ratio, RDiv(RInt(1), self.oi_normalization_threshold))

\* Variant: the stop is hit only when the spot is strictly beyond it.
StopLossHitStrict(position, current_spot) ==
    /\ position.stop_loss # <<>>
    /\ position.stop_loss[1][1] # 0
    /\ IF position.position_type \in LongCallGroup
       THEN RLt(RInt(current_spot), position.stop_loss[1])
       ELSE RLt(position.stop_loss[1], RInt(current_spot))

StopLossHit(position, current_spot) ==
    /\ position.stop_loss # <<>>
    /\ position.stop_loss[1][1] # 0
    /\ IF position.position_type \in LongCallGroup
       THEN RLe(RInt(current_spot), position.stop_loss[1])
       ELSE RLe(position.stop_loss[1], RInt(current_spot))

\* current_market_data.get('strikes_data', []): the exit check reads the key
\* 'strikes_data', while run_strategy_cycle and process_options_data use 'data'.
StrikesDataOf(current_market_data) ==
    IF "strikes_data" \in DOMAIN current_market_data
    THEN current_market_data.strikes_data
    ELSE <<>>

\* should_exit_position: [exit, reason]
ShouldExitPosition(self, position, current_market_data) ==
    LET current_spot == current_market_data.spot_price
    IN  IF current_spot = 0 THEN [exit |-> FALSE, reason |-> "No current market data"]
        ELSE IF RLe(self.profit_target_pct, CalculateCurrentPnlPct(position, current_spot))
        THEN [exit |-> TRUE, reason |-> "Profit target hit"]
        ELSE IF OINormalized(self, position, StrikesDataOf(current_market_data))
        THEN [exit |-> TRUE, reason |-> "OI normalized"]
        ELSE IF StopLossHit(position, current_spot)
        THEN [exit |-> TRUE, reason |-> "Stop loss hit"]
        ELSE [exit |-> FALSE, reason |-> "Hold position"]

\* Variant: the quantity is the truncated quotient, without the minimum of 1.
CalculatePositionSizeNoMinimum(self, signal, spot_price) ==
    LET risk_amount == RMul(RInt(self.capital), RDiv(self.max_risk_per_trade, RInt(100)))
        per_unit == RMul(RInt(spot_price), Rat(3, 100))
        quantity == RTrunc(RDiv(risk_amount, per_unit))
    IN  IF signal.type = "CALL"
        THEN [quantity |-> quantity,
              stop_loss |-> RMul(RInt(spot_price), Rat(97, 100)),
              target_price |-> RMul(RInt(spot_price), Rat(115, 100))]
        ELSE [quantity |-> quantity,
              stop_loss |-> RMul(RInt(spot_price), Rat(103, 100)),
              target_price |-> RMul(RInt(spot_price), Rat(85, 100))]

\* calculate_position_size: [quantity, stop_loss, target_price]
CalculatePositionSize(self, signal, spot_price) ==
    LET risk_amount == RMul(RInt(self.capital), RDiv(self.max_risk_per_trade, RInt(100)))
        per_unit == RMul(RInt(spot_price), Rat(3, 100))
        floor_qty == RTrunc(RDiv(risk_amount, per_unit))
        quantity == IF floor_qty > 1 THEN floor_qty ELSE 1
    IN  IF signal.type = "CALL"
        THEN [quantity |-> quantity,
              stop_loss |-> RMul(RInt(spot_price), Rat(97, 100)),
              target_price |-> RMul(RInt(spot_price), Rat(115, 100))]
        ELSE [quantity |-> quantity,
              stop_loss |-> RMul(RInt(spot_price), Rat(103, 100)),
              target_price |-> RMul(RInt(spot_price), Rat(85, 100))]

-----------------------------------------------------------------------------
(* TradingDatabase: the ledger tables *)

\* save_trading_signal: the row appended to trading_signals (status defaults to ACTIVE)
SignalRow(symbol, signal) ==
    [symbol |-> symbol, signal_type |-> signal.type, strike_price |-> signal.strike,
     entry_trigger |-> signal.entry_trigger, confidence |-> signal.confidence,
     oi_ratio |-> signal.oi_ratio, status |-> "ACTIVE"]

\* open_position: the row appended to positions (exit columns NULL, pnl columns 0)
PositionRow(signal_id, symbol, position_type, entry_price, quantity, stop_loss, target_price) ==
    [signal_id |-> signal_id, symbol |-> symbol, position_type |-> position_type,
     entry_price |-> entry_price, quantity |-> quantity,
     stop_loss |-> stop_loss, target_price |-> target_price,
     exit_price |-> <<>>, exit_time |-> <<>>, exit_reason |-> <<>>,
     pnl |-> RInt(0), pnl_percentage |-> RInt(0), status |-> "OPEN"]

\* An open_position without the UPDATE of the signal's status.
OpenPositionNoStatusUpdate(db, signal_id, symbol, position_type, entry_price, quantity, stop_loss, target_price) ==
    [positions |-> Append(db.positions,
                          PositionRow(signal_id, symbol, position_type, entry_price,
                                      quantity, stop_loss, target_price)),
     trading_signals |-> db.trading_signals,
     position_id |-> Len(db.positions) + 1]

\* open_position: [positions, trading_signals, position_id]; the UPDATE marks the
\* referenced signal EXECUTED (no row is touched when the id matches none).
OpenPosition(db, signal_id, symbol, position_type, entry_price, quantity, stop_loss, target_price) ==
    [positions |-> Append(db.positions,
                          PositionRow(signal_id, symbol, position_type, entry_price,
                                      quantity, stop_loss, target_price)),
     trading_signals |->
        [i \in 1..Len(db.trading_signals) |->
            IF i = signal_id THEN [db.trading_signals[i] EXCEPT !.status = "EXECUTED"]
            ELSE db.trading_signals[i]],
     position_id |-> Len(db.positions) + 1]

\* The logical clock standing for datetime.now() at a close: one more than the
\* number of rows that carry an exit_time.
NextExitTime(rows) == Cardinality({i \in 1..Len(rows) : rows[i].exit_time # <<>>}) + 1

\* The row written by an UPDATE of close_position that reaches its end, with
\* the position's own type used in the P&L branch.
ClosedRow(rows, position_id, exit_price, exit_reason) ==
    LET row == rows[position_id]
        diff == IF row.position_type \in {"LONG_CALL", "LONG_PUT", "SHORT_CALL"}
                THEN exit_price - row.entry_price
                ELSE row.entry_price - exit_price
    IN  [row EXCEPT !.exit_price = <<exit_price>>,
                    !.exit_time = <<NextExitTime(rows)>>,
                    !.pnl = RInt(diff * row.quantity),
                    !.pnl_percentage = Rat(diff * 100, row.entry_price),
                    !.exit_reason = <<exit_reason>>,
                    !.status = "CLOSED"]

\* Variant: position_type is read with the row, the UPDATE runs for any row id.
ClosePositionTypeRead(rows, position_id, exit_price, exit_reason) ==
    IF position_id \notin 1..Len(rows)
    THEN [raised |-> NoRaise, ok |-> FALSE, positions |-> rows]
    ELSE [raised |-> NoRaise, ok |-> TRUE,
          positions |-> [rows EXCEPT ![position_id] =
                            ClosedRow(rows, position_id, exit_price, exit_reason)]]

\* Variant: as above, and the UPDATE leaves exit_reason out.
ClosePositionNoReason(rows, position_id, exit_price, exit_reason) ==
    IF position_id \notin 1..Len(rows)
    THEN [raised |-> NoRaise, ok |-> FALSE, positions |-> rows]
    ELSE [raised |-> NoRaise, ok |-> TRUE,
          positions |-> [rows EXCEPT ![position_id] =
                            [ClosedRow(rows, position_id, exit_price, exit_reason)
                                EXCEPT !.exit_reason = <<>>]]]

\* close_position: [raised, ok, positions].  The SELECT fetches entry_price and
\* quantity only; the P&L branch then reads the name position_type, which is
\* bound nowhere in the method or the module: NameError for every existing row,
\* raised before the UPDATE, so the row is left as it was.
ClosePosition(rows, position_id, exit_price, exit_reason) ==
    IF position_id \notin 1..Len(rows)
    THEN [raised |-> NoRaise, ok |-> FALSE, positions |-> rows]
    ELSE [raised |-> "NameError", ok |-> FALSE, positions |-> rows]

\* get_open_positions: ids of the OPEN rows joined with their signal, newest
\* entry first (ORDER BY entry_time DESC; entry order is id order).
RECURSIVE Descending(_)
Descending(S) ==
    IF S = {} THEN <<>>
    ELSE LET m == CHOOSE x \in S : \A y \in S : y <= x
         IN  <<m>> \o Descending(S \ {m})

GetOpenPositions(db) ==
    Descending({i \in 1..Len(db.positions) :
                  /\ db.positions[i].status = "OPEN"
                  /\ db.positions[i].signal_id \in 1..Len(db.trading_signals)})

\* One row of get_open_positions: p.* plus the signal's strike_price.
JoinedPosition(db, id) ==
    [id |-> id,
     symbol |-> db.positions[id].symbol,
     position_type |-> db.positions[id].position_type,
     entry_price |-> db.positions[id].entry_price,
     stop_loss |-> db.positions[id].stop_loss,
     strike_price |-> db.trading_signals[db.positions[id].signal_id].strike_price]

RECURSIVE SumPnl(_, _)
SumPnl(rows, i) ==
    IF i > Len(rows) THEN RInt(0)
    ELSE IF rows[i].status = "CLOSED" THEN RAdd(rows[i].pnl, SumPnl(rows, i + 1))
    ELSE SumPnl(rows, i + 1)

\* get_performance_metrics(...)['total_pnl']: 0 when no row is CLOSED.
TotalPnl(rows) == SumPnl(rows, 1)

\* round(x, n) of a value of either sign.
RoundSigned(x, scale) ==
    IF x[1] >= 0 THEN Round(x, scale)
    ELSE RSub(RInt(0), Round(RSub(RInt(0), x), scale))

\* The frame of get_performance_metrics: the pnl column of the rows with status
\* CLOSED and exit_time >= since, latest exit first (ORDER BY exit_time DESC).
RECURSIVE PnlByExitTimeDescending(_, _)
PnlByExitTimeDescending(rows, ids) ==
    IF ids = {} THEN <<>>
    ELSE LET m == CHOOSE x \in ids :
                    \A y \in ids : rows[y].exit_time[1] <= rows[x].exit_time[1]
         IN  <<rows[m].pnl>> \o PnlByExitTimeDescending(rows, ids \ {m})

ClosedFrame(rows, since) ==
    PnlByExitTimeDescending(rows,
        {i \in 1..Len(rows) : /\ rows[i].status = "CLOSED"
                              /\ rows[i].exit_time # <<>>
                              /\ rows[i].exit_time[1] >= since})

RECURSIVE SumSeq(_, _)
SumSeq(pnl, n) == IF n = 0 THEN RInt(0) ELSE RAdd(SumSeq(pnl, n - 1), pnl[n])

\* (cumsum - cumsum.expanding().max()).min() over the frame in its own order.
RECURSIVE ExpandingMax(_, _)
ExpandingMax(pnl, n) ==
    IF n = 1 THEN SumSeq(pnl, 1) ELSE RMax(ExpandingMax(pnl, n - 1), SumSeq(pnl, n))

RECURSIVE MinDrawdown(_, _)
MinDrawdown(pnl, n) ==
    IF n = 1 THEN RSub(SumSeq(pnl, 1), ExpandingMax(pnl, 1))
    ELSE RMin(MinDrawdown(pnl, n - 1), RSub(SumSeq(pnl, n), ExpandingMax(pnl, n)))

MetricsOf(pnl) ==
    LET wins == SelectSeq(pnl, LAMBDA x : x[1] > 0)
        losses == SelectSeq(pnl, LAMBDA x : x[1] < 0)
    IN  [total_trades |-> Len(pnl),
         winning_trades |-> Len(wins),
         win_rate |-> Round(Rat(Len(wins) * 100, Len(pnl)), 100),
         total_pnl |-> RoundSigned(SumSeq(pnl, Len(pnl)), 100),
         avg_win |-> IF wins = <<>> THEN RInt(0)
                     ELSE Round(RDiv(SumSeq(wins, Len(wins)), RInt(Len(wins))), 100),
         avg_loss |-> IF losses = <<>> THEN RInt(0)
                      ELSE Round(RDiv(RSub(RInt(0), SumSeq(losses, Len(losses))),
                                      RInt(Len(losses))), 100),
         max_drawdown |-> RoundSigned(MinDrawdown(pnl, Len(pnl)), 100)]

\* get_performance_metrics with the window's start on the exit clock
\* (profit_factor, which no caller reads, is left out).
GetPerformanceMetrics(rows, since) ==
    IF ClosedFrame(rows, since) = <<>>
    THEN [total_trades |-> 0, winning_trades |-> 0, win_rate |-> RInt(0),
          total_pnl |-> RInt(0), avg_win |-> RInt(0), avg_loss |-> RInt(0),
          max_drawdown |-> RInt(0)]
    ELSE MetricsOf(ClosedFrame(rows, since))

-----------------------------------------------------------------------------
(* OIReversalStrategy: execution, monitoring and the strategy cycle *)

\* INSERT OR REPLACE in place of INSERT OR IGNORE.
InitializeDatabaseReplacing(params) ==
    [n \in DOMAIN params \cup DOMAIN default_params |->
        IF n \in DOMAIN default_params THEN default_params[n] ELSE params[n]]

\* _initialize_database on an existing store: CREATE TABLE IF NOT EXISTS leaves
\* the tables alone, INSERT OR IGNORE adds a default only for a parameter_name
\* (UNIQUE) that has no row.
InitializeDatabase(params) ==
    [n \in DOMAIN params \cup DOMAIN default_params |->
        IF n \in DOMAIN params THEN params[n] ELSE default_params[n]]

\* update_strategy_parameter: UPDATE ... WHERE parameter_name = ?; a name that
\* is not in the table changes no row.
UpdateStrategyParameter(params, param_name, param_value) ==
    IF param_name \in DOMAIN params
    THEN [params EXCEPT ![param_name] = param_value]
    ELSE params

\* An execute_signal that skips a signal whose symbol and strike already have
\* an OPEN position.
ExecuteSignalDeduplicating(self, db, signal, market) ==
    IF \/ market.spot_price = 0
       \/ \E i \in 1..Len(db.positions) :
              /\ db.positions[i].status = "OPEN"
              /\ db.positions[i].symbol = market.symbol
              /\ db.positions[i].signal_id \in 1..Len(db.trading_signals)
              /\ db.trading_signals[db.positions[i].signal_id].strike_price = signal.strike
    THEN [db |-> db, position_id |-> <<>>]
    ELSE [db |-> [db EXCEPT
                    !.trading_signals =
                        Append(@, [SignalRow(market.symbol, signal) EXCEPT !.status = "EXECUTED"]),
                    !.positions =
                        Append(@, PositionRow(Len(db.trading_signals) + 1, market.symbol,
                                              IF signal.type = "CALL" THEN "LONG_CALL"
                                              ELSE "LONG_PUT",
                                              market.spot_price,
                                              CalculatePositionSize(self, signal,
                                                                    market.spot_price).quantity,
                                              <<CalculatePositionSize(self, signal,
                                                                      market.spot_price).stop_loss>>,
                                              <<CalculatePositionSize(self, signal,
                                                                      market.spot_price).target_price>>))],
          position_id |-> <<Len(db.positions) + 1>>]

\* execute_signal with a nonzero spot: save the signal, size, open the position.
\* [db, position_id]; position_id is <<>> for None.
ExecuteSignal(self, db, signal, market) ==
    IF market.spot_price = 0 THEN [db |-> db, position_id |-> <<>>]
    ELSE
    LET signal_id == Len(db.trading_signals) + 1
        saved == [db EXCEPT !.trading_signals = Append(@, SignalRow(market.symbol, signal))]
        size == CalculatePositionSize(self, signal, market.spot_price)
        position_type == IF signal.type = "CALL" THEN "LONG_CALL" ELSE "LONG_PUT"
        opened == OpenPosition(saved, signal_id, market.symbol, position_type,
                               market.spot_price, size.quantity,
                               <<size.stop_loss>>, <<size.target_price>>)
    IN  [db |-> [saved EXCEPT !.positions = opened.positions,
                              !.trading_signals = opened.trading_signals],
         position_id |-> <<opened.position_id>>]

RECURSIVE ExecuteLoop(_, _, _, _, _, _)
ExecuteLoop(self, db, signals, market, i, opened) ==
    IF i > Len(signals) THEN [db |-> db, positions_opened |-> opened]
    ELSE LET r == ExecuteSignal(self, db, signals[i], market)
         IN  ExecuteLoop(self, r.db, signals, market, i + 1,
                         IF r.position_id # <<>> THEN opened + 1 ELSE opened)

\* monitor_and_exit_positions: [raised, positions, evaluated]; the open rows are
\* read once, each is evaluated in turn, and an exception of close_position
\* leaves the loop.
RECURSIVE MonitorLoop(_, _, _, _, _, _)
MonitorLoop(self, db, ids, market, i, evaluated) ==
    IF i > Len(ids) THEN [raised |-> NoRaise, positions |-> db.positions, evaluated |-> evaluated]
    ELSE
    LET d == ShouldExitPosition(self, JoinedPosition(db, ids[i]), market)
        seen == Append(evaluated, [id |-> ids[i], exit |-> d.exit, reason |-> d.reason])
    IN  IF ~d.exit THEN MonitorLoop(self, db, ids, market, i + 1, seen)
        ELSE LET c == ClosePosition(db.positions, ids[i], market.spot_price, d.reason)
             IN  IF c.raised # NoRaise
                 THEN [raised |-> c.raised, positions |-> c.positions, evaluated |-> seen]
                 ELSE MonitorLoop(self, [db EXCEPT !.positions = c.positions],
                                  ids, market, i + 1, seen)

MonitorAndExitPositions(self, db, market) ==
    MonitorLoop(self, db, GetOpenPositions(db), market, 1, <<>>)

NoResults == [signals_detected |-> 0, positions_opened |-> 0, positions_closed |-> 0,
              total_pnl |-> RInt(0)]

\* run_strategy_cycle after the monitoring step: the P&L of the performance
\* query is read only when monitoring did not raise.
CycleFinish(det, ex, mon) ==
    [db |-> [ex.db EXCEPT !.positions = mon.positions],
     results |-> [signals_detected |-> Len(det.signals),
                  positions_opened |-> ex.positions_opened,
                  positions_closed |-> 0,
                  total_pnl |-> IF mon.raised # NoRaise THEN RInt(0)
                                ELSE TotalPnl(mon.positions)],
     ran |-> TRUE, signals |-> det.signals,
     raised |-> mon.raised, evaluated |-> mon.evaluated]

\* run_strategy_cycle after the execution loop.
CycleMonitor(self, market, det, ex) ==
    CycleFinish(det, ex, MonitorAndExitPositions(self, ex.db, market))

\* run_strategy_cycle after detection: a raising detector leaves the try block.
CycleExecute(self, saved, market, det) ==
    IF det.raised # NoRaise
    THEN [db |-> saved, results |-> NoResults, ran |-> TRUE, signals |-> <<>>,
          raised |-> det.raised, evaluated |-> <<>>]
    ELSE CycleMonitor(self, market, det, ExecuteLoop(self, saved, det.signals, market, 1, 0))

\* Variant: the thresholds are read again from the stored parameters in each cycle.
RunStrategyCycleReloading(self, db, market) ==
    IF market.data = <<>> \/ market.spot_price = 0
    THEN [db |-> db, results |-> NoResults, ran |-> FALSE, signals |-> <<>>,
          raised |-> NoRaise, evaluated |-> <<>>]
    ELSE CycleExecute(NewStrategy(strategy_parameters, self.capital),
                      [db EXCEPT !.market_data = @ + 1], market,
                      DetectExtremeOIConcentration(
                          NewStrategy(strategy_parameters, self.capital),
                          market.data, market.spot_price))

\* Variant: the guard tests the strike list only, not the spot price.
RunStrategyCycleNoSpotGuard(self, db, market) ==
    IF market.data = <<>>
    THEN [db |-> db, results |-> NoResults, ran |-> FALSE, signals |-> <<>>,
          raised |-> NoRaise, evaluated |-> <<>>]
    ELSE CycleExecute(self, [db EXCEPT !.market_data = @ + 1], market,
                      DetectExtremeOIConcentration(self, market.data, market.spot_price))

\* run_strategy_cycle: [db, results, ran, signals, raised, evaluated].  Every
\* exception raised inside the try block is caught and the results gathered so
\* far are returned; results['positions_closed'] is never assigned again.
RunStrategyCycle(self, db, market) ==
    IF market.data = <<>> \/ market.spot_price = 0
    THEN [db |-> db, results |-> NoResults, ran |-> FALSE, signals |-> <<>>,
          raised |-> NoRaise, evaluated |-> <<>>]
    ELSE CycleExecute(self, [db EXCEPT !.market_data = @ + 1], market,
                      DetectExtremeOIConcentration(self, market.data, market.spot_price))

-----------------------------------------------------------------------------
(* StreetSmartTradingEngine: snapshot analytics *)

engine_max_risk_per_trade == Rat(2, 100)
engine_min_reward_ratio == Rat(3, 2)
engine_max_position_size == Rat(1, 10)
atm_window_points == 6 * 50
data_limit == 20
oi_confidence_scale == 1000000

RECURSIVE SumField(_, _, _)
SumField(rows, i, which) ==
    IF i > Len(rows) THEN 0
    ELSE (IF which = "call" THEN rows[i].call_oi ELSE rows[i].put_oi)
         + SumField(rows, i + 1, which)

Neutral == [raised |-> NoRaise, sentiment |-> "NEUTRAL", score |-> RInt(50),
            confidence |-> RInt(0)]

SentimentRaised == [raised |-> "ZeroDivisionError", sentiment |-> "NONE",
                    score |-> RInt(0), confidence |-> RInt(0)]

\* The scoring part of calculate_market_sentiment, total_call_oi being nonzero.
SentimentScore(total_call_oi, total_put_oi) ==
    LET put_call_ratio == Rat(total_put_oi, total_call_oi)
        confidence == Round(RMin(RInt(100),
                                 RMul(Rat(total_call_oi + total_put_oi, oi_confidence_scale),
                                      RInt(100))), 10)
    IN  IF RLt(Rat(12, 10), put_call_ratio)
        THEN [raised |-> NoRaise, sentiment |-> "BEARISH",
              score |-> Round(RMin(RInt(100),
                                   RAdd(RInt(50), RMul(RSub(put_call_ratio, RInt(1)), RInt(25)))), 10),
              confidence |-> confidence]
        ELSE IF RLt(put_call_ratio, Rat(8, 10))
        THEN IF total_put_oi = 0 THEN SentimentRaised
             ELSE [raised |-> NoRaise, sentiment |-> "BULLISH",
                   score |-> Round(RMax(RInt(0),
                                        RSub(RInt(50),
                                             RMul(RSub(RDiv(RInt(1), put_call_ratio), RInt(1)),
                                                  RInt(25)))), 10),
                   confidence |-> confidence]
        ELSE [raised |-> NoRaise, sentiment |-> "NEUTRAL", score |-> RInt(50),
              confidence |-> confidence]

\* calculate_market_sentiment: [raised, sentiment, score, confidence].  The ratio
\* total_put_oi / total_call_oi is taken whenever the total OI is nonzero.
CalculateMarketSentiment(strikes_data) ==
    IF strikes_data = <<>> THEN Neutral
    ELSE IF SumField(strikes_data, 1, "call") + SumField(strikes_data, 1, "put") = 0 THEN Neutral
    ELSE IF SumField(strikes_data, 1, "call") = 0 THEN SentimentRaised
    ELSE SentimentScore(SumField(strikes_data, 1, "call"), SumField(strikes_data, 1, "put"))

\* The regime bands of calculate_volatility for a concentration in [0, 1].
VolatilityRegime(oi_concentration) ==
    IF RLt(Rat(7, 10), oi_concentration)
    THEN [iv |-> Round(RAdd(RInt(25), RMul(oi_concentration, RInt(15))), 10),
          volatility_regime |-> "HIGH"]
    ELSE IF RLt(Rat(4, 10), oi_concentration)
    THEN [iv |-> Round(RAdd(RInt(15), RMul(oi_concentration, RInt(10))), 10),
          volatility_regime |-> "MEDIUM"]
    ELSE [iv |-> Round(RAdd(RInt(5), RMul(oi_concentration, RInt(10))), 10),
          volatility_regime |-> "LOW"]

MinOf(a, b) == IF a < b THEN a ELSE b
MaxOf(a, b) == IF a < b THEN b ELSE a

\* The means of call_oi and put_oi over the same rows have the same divisor, so
\* min(mean)/max(mean) is the ratio of the sums.
Concentration(atm) ==
    IF MaxOf(SumField(atm, 1, "call"), SumField(atm, 1, "put")) > 0
    THEN Rat(MinOf(SumField(atm, 1, "call"), SumField(atm, 1, "put")),
             MaxOf(SumField(atm, 1, "call"), SumField(atm, 1, "put")))
    ELSE RInt(0)

\* calculate_volatility: [iv, volatility_regime]
CalculateVolatility(strikes_data, spot_price) ==
    IF strikes_data = <<>> THEN [iv |-> RInt(0), volatility_regime |-> "LOW"]
    ELSE IF SelectSeq(strikes_data, LAMBDA r : 50 * Abs(r.strike - spot_price) < spot_price) = <<>>
    THEN [iv |-> RInt(0), volatility_regime |-> "UNKNOWN"]
    ELSE VolatilityRegime(
            Concentration(SelectSeq(strikes_data,
                                    LAMBDA r : 50 * Abs(r.strike - spot_price) < spot_price)))

\* Variant: the first signal of the list is taken, not the most confident one.
BestSignalFirst(signals) == signals[1]

\* max(signals, key=confidence): the first signal of the highest confidence.
BestSignal(signals) ==
    signals[CHOOSE i \in 1..Len(signals) :
              /\ \A j \in 1..Len(signals) : RLe(signals[j].confidence, signals[i].confidence)
              /\ \A j \in 1..(i - 1) : RLt(signals[j].confidence, signals[i].confidence)]

\* The risk assessment of generate_trading_decision: the sentiment label is
\* compared with the signal's type.
RiskMultiplier(best_signal, sentiment, volatility) ==
    IF volatility.volatility_regime = "HIGH" THEN Rat(7, 10)
    ELSE IF sentiment.sentiment = best_signal.type THEN Rat(12, 10)
    ELSE RInt(1)

PositionSizePct(best_signal, sentiment, volatility) ==
    RMin(engine_max_position_size,
         RMul(RMul(engine_max_risk_per_trade, RDiv(best_signal.confidence, RInt(100))),
              RiskMultiplier(best_signal, sentiment, volatility)))

\* reward_amount / risk_amount: 6% against 3% of the spot, 0 when the spot is 0.
RewardRiskRatio(spot_price) == IF spot_price > 0 THEN RInt(2) ELSE RInt(0)

DecisionFor(best_signal, size_pct, spot_price) ==
    LET stop_loss == IF best_signal.type = "CALL" THEN RMul(RInt(spot_price), Rat(97, 100))
                     ELSE RMul(RInt(spot_price), Rat(103, 100))
        target == IF best_signal.type = "CALL" THEN RMul(RInt(spot_price), Rat(106, 100))
                  ELSE RMul(RInt(spot_price), Rat(94, 100))
        base == [action |-> "HOLD", confidence |-> best_signal.confidence,
                 risk_level |-> "LOW", position_size |-> RInt(0),
                 stop_loss |-> <<Round(stop_loss, 100)>>, target |-> <<Round(target, 100)>>]
    IN  IF /\ RLe(RInt(80), best_signal.confidence)
           /\ RLe(engine_min_reward_ratio, RewardRiskRatio(spot_price))
        THEN [base EXCEPT !.action = IF best_signal.type = "CALL" THEN "BUY" ELSE "SELL",
                          !.risk_level = IF RLt(Rat(5, 100), size_pct) THEN "MEDIUM" ELSE "LOW",
                          !.position_size = Round(RMul(size_pct, RInt(100)), 10)]
        ELSE IF RLe(RInt(70), best_signal.confidence)
        THEN [base EXCEPT !.action = "WATCH"]
        ELSE base

\* generate_trading_decision
GenerateTradingDecision(signals, sentiment, volatility, spot_price) ==
    IF signals = <<>>
    THEN [action |-> "HOLD", confidence |-> RInt(60), risk_level |-> "LOW",
          position_size |-> RInt(0), stop_loss |-> <<>>, target |-> <<>>]
    ELSE DecisionFor(BestSignal(signals),
                     PositionSizePct(BestSignal(signals), sentiment, volatility),
                     spot_price)

\* The best-signal bands of process_options_data for one strike inside the ATM
\* window; oi_ratio is 0 when call_oi is 0.
BandSignal(raw, oi_ratio) ==
    IF RLt(Rat(5, 2), oi_ratio)
    THEN <<[type |-> "PUT", strike |-> raw.strike, oi_ratio |-> oi_ratio,
            confidence |-> RMin(RInt(95), RAdd(RInt(70), RMul(RSub(oi_ratio, Rat(5, 2)), RInt(10)))),
            strength |-> "VERY_STRONG"]>>
    ELSE IF RLt(RInt(2), oi_ratio)
    THEN <<[type |-> "PUT", strike |-> raw.strike, oi_ratio |-> oi_ratio,
            confidence |-> RMin(RInt(85), RAdd(RInt(60), RMul(RSub(oi_ratio, RInt(2)), RInt(12)))),
            strength |-> "STRONG"]>>
    ELSE IF RLt(oi_ratio, Rat(4, 10))
    THEN <<[type |-> "CALL", strike |-> raw.strike, oi_ratio |-> oi_ratio,
            confidence |-> IF oi_ratio[1] > 0
                           THEN RMin(RInt(95),
                                     RAdd(RInt(70),
                                          RMul(RSub(RDiv(RInt(1), oi_ratio), Rat(5, 2)), RInt(10))))
                           ELSE RInt(95),
            strength |-> "VERY_STRONG"]>>
    ELSE IF RLt(oi_ratio, Rat(5, 10))
    THEN <<[type |-> "CALL", strike |-> raw.strike, oi_ratio |-> oi_ratio,
            confidence |-> RMin(RInt(85),
                                RAdd(RInt(60),
                                     RMul(RSub(RDiv(RInt(1), oi_ratio), RInt(2)), RInt(12)))),
            strength |-> "STRONG"]>>
    ELSE <<>>

RawRatio(raw) == IF raw.call_oi > 0 THEN Rat(raw.put_oi, raw.call_oi) ELSE RInt(0)

IsAtmStrike(raw, spot_price) == Abs(raw.strike - spot_price) <= atm_window_points

\* The per-strike loop of process_options_data: [processed_data, signals].
RECURSIVE ProcessLoop(_, _, _, _, _)
ProcessLoop(raw_rows, spot_price, i, processed, signals) ==
    IF i > Len(raw_rows) THEN [processed_data |-> processed, signals |-> signals]
    ELSE IF raw_rows[i].call_oi + raw_rows[i].put_oi = 0 \/ ~IsAtmStrike(raw_rows[i], spot_price)
    THEN ProcessLoop(raw_rows, spot_price, i + 1, processed, signals)
    ELSE ProcessLoop(raw_rows, spot_price, i + 1,
                     Append(processed, raw_rows[i]),
                     signals \o BandSignal(raw_rows[i], RawRatio(raw_rows[i])))

\* sorted(processed_data, key=strike): a stable insertion sort.
RECURSIVE InsertByStrike(_, _)
InsertByStrike(sorted, row) ==
    IF sorted = <<>> THEN <<row>>
    ELSE IF sorted[Len(sorted)].strike <= row.strike THEN Append(sorted, row)
    ELSE Append(InsertByStrike(SubSeq(sorted, 1, Len(sorted) - 1), row), sorted[Len(sorted)])

RECURSIVE SortedByStrike(_, _)
SortedByStrike(rows, n) ==
    IF n = 0 THEN <<>> ELSE InsertByStrike(SortedByStrike(rows, n - 1), rows[n])

\* process_options_data after the sort: analytics, decision and the result.
ProcessAnalytics(symbol, spot_price, sorted, signals, sentiment) ==
    IF sentiment.raised # NoRaise
    THEN [raised |-> sentiment.raised]
    ELSE [raised |-> NoRaise, symbol |-> symbol,
          data |-> SubSeq(sorted, 1, MinOf(data_limit, Len(sorted))),
          signals |-> signals, sentiment |-> sentiment,
          volatility |-> CalculateVolatility(sorted, spot_price),
          trading_decision |->
              GenerateTradingDecision(signals, sentiment,
                                      CalculateVolatility(sorted, spot_price), spot_price),
          spot_price |-> spot_price]

ProcessSorted(symbol, spot_price, looped) ==
    ProcessAnalytics(symbol, spot_price,
                     SortedByStrike(looped.processed_data, Len(looped.processed_data)),
                     looped.signals,
                     CalculateMarketSentiment(
                         SortedByStrike(looped.processed_data, Len(looped.processed_data))))

\* process_options_data on a raw chain [underlyingValue, data]
ProcessOptionsData(raw, symbol) ==
    ProcessSorted(symbol, raw.underlyingValue,
                  ProcessLoop(raw.data, raw.underlyingValue, 1, <<>>, <<>>))

-----------------------------------------------------------------------------
(* StrategyRunner: a timer-triggered batch over several symbols *)

\* fetch_all_data: raws[i] is <<>> when fetch_options_chain returned None and
\* <<raw>> otherwise.  process_options_data is called outside any try block:
\* [raised, all_data, fetched], fetched counting the symbols whose chain was
\* requested.
RECURSIVE FetchLoop(_, _, _, _)
FetchLoop(symbols, raws, i, all_data) ==
    IF i > Len(symbols) THEN [raised |-> NoRaise, all_data |-> all_data, fetched |-> i - 1]
    ELSE IF raws[i] = <<>> THEN FetchLoop(symbols, raws, i + 1, all_data)
    ELSE IF ProcessOptionsData(raws[i][1], symbols[i]).raised # NoRaise
    THEN [raised |-> ProcessOptionsData(raws[i][1], symbols[i]).raised,
          all_data |-> all_data, fetched |-> i]
    ELSE FetchLoop(symbols, raws, i + 1,
                   Append(all_data, ProcessOptionsData(raws[i][1], symbols[i])))

FetchAllData(symbols, raws) == FetchLoop(symbols, raws, 1, <<>>)

\* The per-symbol loop of StrategyRunner.main: [db, cycled], cycled listing the
\* symbols whose strategy cycle was run.
RECURSIVE RunnerLoop(_, _, _, _, _)
RunnerLoop(self, db, market_data_list, i, cycled) ==
    IF i > Len(market_data_list) THEN [db |-> db, cycled |-> cycled]
    ELSE RunnerLoop(self, RunStrategyCycle(self, db, market_data_list[i]).db,
                    market_data_list, i + 1,
                    Append(cycled, market_data_list[i].symbol))

RunnerAfterFetch(self, db, f) ==
    IF f.raised # NoRaise
    THEN [raised |-> f.raised, fetched |-> f.fetched, db |-> db, cycled |-> <<>>]
    ELSE [raised |-> NoRaise, fetched |-> f.fetched,
          db |-> RunnerLoop(self, db, f.all_data, 1, <<>>).db,
          cycled |-> RunnerLoop(self, db, f.all_data, 1, <<>>).cycled]

\* StrategyRunner.main: [raised, fetched, db, cycled].  An exception leaving
\* fetch_all_data reaches the outer handler, which re-raises it.
RunnerMain(self, db, symbols, raws) ==
    RunnerAfterFetch(self, db, FetchAllData(symbols, raws))

-----------------------------------------------------------------------------
(* Inputs *)

Symbols == {"NIFTY.NS"}
Spots == {0, 21000, 25000}
OIChoices == {<<1000, 100>>, <<500, 1800>>, <<1000, 500>>, <<500, 1000>>,
              <<1000, 0>>, <<0, 500>>}
PositionTypes == {"LONG_CALL", "LONG_PUT", "SHORT_CALL", "SHORT_PUT"}

StrikeRecord(strike, oi, volume) ==
    [strike |-> strike, call_oi |-> oi[1], put_oi |-> oi[2],
     call_volume |-> volume[1], put_volume |-> volume[2]]

\* The 'data' of a processed snapshot: ascending strikes inside the ATM window,
\* one strike at the spot, or two strikes of which the second carries a signal.
SnapshotData(spot) ==
    {<<>>}
    \cup {<<StrikeRecord(spot, c, <<0, 0>>)>> : c \in OIChoices}
    \cup {<<StrikeRecord(spot, c1, <<0, 0>>), StrikeRecord(spot + 100, c2, <<0, 0>>)>> :
            c1 \in {<<1000, 100>>, <<500, 1800>>, <<1000, 0>>},
            c2 \in {<<1000, 100>>, <<500, 1800>>}}

\* Snapshots handed to run_strategy_cycle; spot_price 0 stands for a missing one.
MarketSnapshots ==
    UNION {{[symbol |-> sym, spot_price |-> spot, data |-> d] :
              d \in IF spot = 0
                    THEN {<<>>, <<StrikeRecord(25000, <<1000, 100>>, <<0, 0>>)>>}
                    ELSE SnapshotData(spot)} :
             sym \in Symbols, spot \in Spots}

-----------------------------------------------------------------------------
(* The ledger state machine *)

Database == [market_data |-> market_data, trading_signals |-> trading_signals,
             positions |-> positions]

NoCall == [fn |-> "none"]

Init ==
    /\ strategy_parameters = default_params
    /\ strategy = NewStrategy(default_params, default_capital)
    /\ market_data = 0
    /\ trading_signals = <<>>
    /\ positions = <<>>
    /\ last = [op |-> "init"]
    /\ call = NoCall

\* One call of run_strategy_cycle on a processed snapshot.
StrategyCycle ==
    \E market \in MarketSnapshots :
        \E r \in {RunStrategyCycle(strategy, Database, market)} :
            /\ r.db.market_data <= MaxSnapshots
            /\ Len(r.db.positions) <= MaxLedger
            /\ Len(r.db.trading_signals) <= MaxLedger
            /\ market_data' = r.db.market_data
            /\ trading_signals' = r.db.trading_signals
            /\ positions' = r.db.positions
            /\ last' = [op |-> "run_strategy_cycle", market |-> market,
                        results |-> r.results, ran |-> r.ran, signals |-> r.signals,
                        raised |-> r.raised, evaluated |-> r.evaluated]
            /\ UNCHANGED <<strategy_parameters, strategy, call>>

\* A direct call of TradingDatabase.open_position on a stored signal.
OpenPositionCall ==
    \E signal_id \in 1..Len(trading_signals), position_type \in {"SHORT_CALL", "SHORT_PUT"},
       entry_price \in Spots \ {0} :
        \E r \in {OpenPosition(Database, signal_id, trading_signals[signal_id].symbol,
                                position_type, entry_price, 1, <<>>, <<>>)} :
            /\ Len(positions) < MaxLedger
            /\ positions' = r.positions
            /\ trading_signals' = r.trading_signals
            /\ last' = [op |-> "open_position", position_id |-> r.position_id]
            /\ UNCHANGED <<strategy_parameters, strategy, market_data, call>>

\* A direct call of TradingDatabase.close_position (e.g. a manual close).
ClosePositionCall ==
    \E position_id \in 1..(Len(positions) + 1), exit_price \in Spots \ {0} :
        \E r \in {ClosePosition(positions, position_id, exit_price, "MANUAL")} :
            /\ positions' = r.positions
            /\ last' = [op |-> "close_position", position_id |-> position_id,
                        exit_price |-> exit_price, raised |-> r.raised, ok |-> r.ok]
            /\ UNCHANGED <<strategy_parameters, strategy, market_data, trading_signals, call>>

Next == StrategyCycle \/ OpenPositionCall \/ ClosePositionCall

Spec == Init /\ [][Next]_vars

-----------------------------------------------------------------------------
(* Parameter updates between cycles *)

ParameterNames == {"oi_ratio_threshold", "trailing_stop_pct"}
ParameterValues == {20, 30}

\* Snapshots with one strike at the spot: put/call 0.4 is a PUT signal for
\* threshold 2.0 only, put/call 0.1 for threshold 3.0 as well.
ParamSnapshots ==
    {[symbol |-> "NIFTY.NS", spot_price |-> 25000,
      data |-> <<StrikeRecord(25000, c, <<0, 0>>)>>] :
        c \in {<<1000, 400>>, <<1000, 100>>, <<1000, 1000>>}}

\* run_strategy_cycle by the engine constructed last.
ParamCycle ==
    \E market \in ParamSnapshots :
        \E r \in {RunStrategyCycle(strategy, Database, market)} :
            /\ r.db.market_data <= MaxSnapshots
            /\ Len(r.db.positions) <= MaxLedger
            /\ Len(r.db.trading_signals) <= MaxLedger
            /\ market_data' = r.db.market_data
            /\ trading_signals' = r.db.trading_signals
            /\ positions' = r.db.positions
            /\ last' = [op |-> "run_strategy_cycle", market |-> market,
                        results |-> r.results, ran |-> r.ran, signals |-> r.signals,
                        raised |-> r.raised, evaluated |-> r.evaluated]
            /\ UNCHANGED <<strategy_parameters, strategy, call>>

\* POST /parameters of ManualTrigger: one update_strategy_parameter call.
UpdateStrategyParameterCall ==
    \E param_name \in ParameterNames, param_value \in ParameterValues :
        /\ strategy_parameters' =
              UpdateStrategyParameter(strategy_parameters, param_name, param_value)
        /\ last' = [op |-> "update_strategy_parameter", param_name |-> param_name,
                    param_value |-> param_value]
        /\ UNCHANGED <<strategy, market_data, trading_signals, positions, call>>

\* A new invocation constructs TradingDatabase on the existing store and then
\* its OIReversalStrategy from the stored parameters.
ConstructStrategy ==
    /\ strategy_parameters' = InitializeDatabase(strategy_parameters)
    /\ strategy' = NewStrategy(strategy_parameters', default_capital)
    /\ last' = [op |-> "construct"]
    /\ UNCHANGED <<market_data, trading_signals, positions, call>>

\* The ledger as the engine alone writes it: open_position and close_position
\* are called by execute_signal and monitor_and_exit_positions only.
NextCycles == StrategyCycle

SpecCycles == Init /\ [][NextCycles]_vars

NextParams ==
    \/ ParamCycle
    \/ OpenPositionCall
    \/ ClosePositionCall
    \/ UpdateStrategyParameterCall
    \/ ConstructStrategy

SpecParams == Init /\ [][NextParams]_vars

-----------------------------------------------------------------------------
(* Applications of the pure functions to bounded inputs: one application from  *)
(* the initial state, its arguments and result kept in call                  *)

\* Engines built after update_strategy_parameter has set the two thresholds.
StrategyWith(threshold, normalization, risk) ==
    NewStrategy([default_params EXCEPT !.oi_ratio_threshold = threshold,
                                       !.oi_normalization_threshold = normalization,
                                       !.max_risk_per_trade = risk],
                default_capital)

ThresholdChoices == {10, 15, 20, 30}
NormalizationChoices == {10, 15, 20}
RiskChoices == {10, 20, 50}
VolumeChoices == {<<0, 0>>, <<3000, 2000>>, <<8000, 6000>>}
DetectStrikes == {24700, 24900, 25000, 25100, 25350}
DetectOI == {c \in {0, 500, 1000, 2000} \X {0, 100, 200, 500, 1000, 1800, 4000} :
               c[1] + c[2] > 0}
ExampleChain == <<StrikeRecord(24900, <<1000, 100>>, <<0, 0>>),
                  StrikeRecord(25000, <<2000, 200>>, <<0, 0>>),
                  StrikeRecord(25100, <<500, 1800>>, <<0, 0>>)>>

DetectInputs ==
    {ExampleChain}
    \cup {<<StrikeRecord(k, c, v)>> : k \in DetectStrikes, c \in DetectOI, v \in VolumeChoices}
    \cup {<<StrikeRecord(24900, c, <<0, 0>>), StrikeRecord(25100, <<500, 1800>>, <<0, 0>>)>> :
            c \in DetectOI}

\* detect_extreme_oi_concentration at spot 25000
DetectCall ==
    /\ call = NoCall
    /\ \E t \in {15, 20}, strikes_data \in DetectInputs :
        /\ call' = [fn |-> "detect_extreme_oi_concentration",
                    self |-> StrategyWith(t, 15, 20),
                    strikes_data |-> strikes_data, spot_price |-> 25000,
                    out |-> DetectExtremeOIConcentration(StrategyWith(t, 15, 20),
                                                         strikes_data, 25000)]
        /\ UNCHANGED ledgerVars

PairPuts == {10, 20, 40, 55, 60, 100, 150, 180, 250, 400}
PairVolumes == {0, 5000, 12000}

\* _calculate_signal_confidence applied to two records of the same strike, with
\* call_oi 100 and the given put_oi and call volume.
ConfidencePairCall ==
    /\ call = NoCall
    /\ \E t \in ThresholdChoices, k \in {25000, 25100},
       pa \in PairPuts, pb \in PairPuts, va \in PairVolumes, vb \in PairVolumes :
        /\ call' = [fn |-> "_calculate_signal_confidence",
                    self |-> StrategyWith(t, 15, 20), strike |-> k, spot_price |-> 25000,
                    a |-> [put_oi |-> pa, call_oi |-> 100, volume |-> va],
                    b |-> [put_oi |-> pb, call_oi |-> 100, volume |-> vb],
                    out_a |-> CalculateSignalConfidence(StrategyWith(t, 15, 20),
                                  StrikeRecord(k, <<100, pa>>, <<va, 0>>), 25000, Rat(pa, 100)),
                    out_b |-> CalculateSignalConfidence(StrategyWith(t, 15, 20),
                                  StrikeRecord(k, <<100, pb>>, <<vb, 0>>), 25000, Rat(pb, 100))]
        /\ UNCHANGED ledgerVars

SizeSpots == {1, 150, 1000, 25000, 66666, 66667, 70000, 2000000}

\* calculate_position_size
PositionSizeCall ==
    /\ call = NoCall
    /\ \E risk \in RiskChoices, type \in {"CALL", "PUT"}, spot \in SizeSpots :
        /\ call' = [fn |-> "calculate_position_size", risk |-> risk,
                    capital |-> default_capital, type |-> type, spot_price |-> spot,
                    out |-> CalculatePositionSize(StrategyWith(20, 15, risk),
                                                  [type |-> type], spot)]
        /\ UNCHANGED ledgerVars

EmptyDatabase == [market_data |-> 0, trading_signals |-> <<>>, positions |-> <<>>]

\* A snapshot that carries its strike list under both keys, so that the exit
\* check sees the records the detector saw.
RoundTripMarket(rows) ==
    [symbol |-> "NIFTY.NS", spot_price |-> 25000, data |-> rows, strikes_data |-> rows]

\* One cycle on an empty ledger: each signal of the snapshot is executed and the
\* position opened from it is evaluated against the same snapshot.
RoundTripCall ==
    /\ call = NoCall
    /\ \E t \in ThresholdChoices, n \in NormalizationChoices,
       k \in {24900, 25000}, c \in DetectOI, v \in {<<0, 0>>, <<8000, 6000>>} :
        /\ call' = [fn |-> "round_trip", threshold |-> t, normalization |-> n,
                    market |-> RoundTripMarket(<<StrikeRecord(k, c, v)>>),
                    out |-> RunStrategyCycle(StrategyWith(t, n, 20), EmptyDatabase,
                                RoundTripMarket(<<StrikeRecord(k, c, v)>>))]
        /\ UNCHANGED ledgerVars

SentimentOI == {0, 1000, 300000, 2000000} \X {0, 1000, 300000, 2000000}

SentimentInputs ==
    {<<>>}
    \cup {<<StrikeRecord(25000, c, <<0, 0>>)>> : c \in SentimentOI}
    \cup {<<StrikeRecord(25000, c1, <<0, 0>>), StrikeRecord(25100, c2, <<0, 0>>)>> :
            c1 \in SentimentOI, c2 \in SentimentOI}

\* calculate_market_sentiment
SentimentCall ==
    /\ call = NoCall
    /\ \E strikes_data \in SentimentInputs :
        /\ call' = [fn |-> "calculate_market_sentiment", strikes_data |-> strikes_data,
                    out |-> CalculateMarketSentiment(strikes_data)]
        /\ UNCHANGED ledgerVars

RawOI == {<<0, 0>>, <<1000, 100>>, <<500, 1800>>, <<1000, 1000>>, <<0, 500>>, <<1000, 450>>}
RawStrikes == {24600, 24900, 25000, 25100}
RawRows == {StrikeRecord(k, c, <<0, 0>>) : k \in RawStrikes, c \in RawOI}

RawChains ==
    {<<>>} \cup {<<r>> : r \in RawRows} \cup {<<r1, r2>> : r1 \in RawRows, r2 \in RawRows}

\* Chains with one row every 25 points from 24750 up (a finer strike grid than
\* the 50 points the window assumes); the last row carries a put concentration.
LongChainLengths == {20, 21}
LongChains ==
    {[i \in 1..n |-> StrikeRecord(24750 + 25 * (i - 1),
                                  IF i = n THEN <<500, 1800>> ELSE <<1000, 1000>>,
                                  <<0, 0>>)] : n \in LongChainLengths}

\* process_options_data on a raw chain
ProcessCall ==
    /\ call = NoCall
    /\ \E spot \in {0, 25000}, rows \in RawChains \cup LongChains :
        /\ call' = [fn |-> "process_options_data",
                    raw |-> [underlyingValue |-> spot, data |-> rows],
                    out |-> ProcessOptionsData([underlyingValue |-> spot, data |-> rows],
                                               "NIFTY.NS")]
        /\ UNCHANGED ledgerVars

RunnerSymbols == <<"NIFTY.NS", "BANKNIFTY.NS">>
BatchRows == {<<>>,
              <<StrikeRecord(25000, <<0, 0>>, <<0, 0>>)>>,
              <<StrikeRecord(25000, <<1000, 100>>, <<0, 0>>)>>,
              <<StrikeRecord(25000, <<0, 500>>, <<0, 0>>)>>,
              <<StrikeRecord(24900, <<500, 1800>>, <<0, 0>>),
                StrikeRecord(25100, <<1000, 450>>, <<0, 0>>)>>}
BatchRaws == {<<>>} \cup {<<[underlyingValue |-> spot, data |-> rows]>> :
                              spot \in {0, 25000}, rows \in BatchRows}

\* One run of StrategyRunner.main on a fresh database.
RunnerCall ==
    /\ call = NoCall
    /\ \E r1 \in BatchRaws, r2 \in BatchRaws :
        /\ call' = [fn |-> "strategy_runner", symbols |-> RunnerSymbols,
                    raws |-> <<r1, r2>>,
                    out |-> RunnerMain(NewStrategy(default_params, default_capital),
                                       EmptyDatabase, RunnerSymbols, <<r1, r2>>)]
        /\ UNCHANGED ledgerVars

ExitSpots == {0, 21000, 24000, 24250, 25000, 25750, 26000, 29000}
ExitStops == {<<>>, <<RInt(0)>>, <<RInt(24250)>>, <<RInt(25750)>>}
ExitOI == {<<1000, 100>>, <<500, 1800>>, <<1000, 1000>>, <<0, 500>>}

\* The dict handed to should_exit_position: without the key 'strikes_data', or
\* with one record at strike 25000 or at another strike.
ExitMarkets(spot) ==
    {[symbol |-> "NIFTY.NS", spot_price |-> spot]}
    \cup {[symbol |-> "NIFTY.NS", spot_price |-> spot,
           strikes_data |-> <<StrikeRecord(k, c, <<0, 0>>)>>] :
             k \in {25000, 25100}, c \in ExitOI}

\* should_exit_position on a position entered at 25000 on strike 25000
ShouldExitCall ==
    /\ call = NoCall
    /\ \E type \in PositionTypes, stop \in ExitStops, spot \in ExitSpots :
       \E market \in ExitMarkets(spot) :
        /\ call' = [fn |-> "should_exit_position",
                    self |-> NewStrategy(default_params, default_capital),
                    position |-> [id |-> 1, symbol |-> "NIFTY.NS", position_type |-> type,
                                  entry_price |-> 25000, stop_loss |-> stop,
                                  strike_price |-> 25000],
                    market |-> market,
                    out |-> ShouldExitPosition(
                                NewStrategy(default_params, default_capital),
                                [id |-> 1, symbol |-> "NIFTY.NS", position_type |-> type,
                                 entry_price |-> 25000, stop_loss |-> stop,
                                 strike_price |-> 25000],
                                market)]
        /\ UNCHANGED ledgerVars

DecisionSignals ==
    {[type |-> t, strike |-> 25000, confidence |-> RInt(c)] :
        t \in {"CALL", "PUT"}, c \in {65, 70, 75, 80, 81, 95}}
DecisionLists ==
    {<<>>} \cup {<<a>> : a \in DecisionSignals}
    \cup {<<a, b>> : a \in DecisionSignals,
                     b \in {[type |-> "CALL", strike |-> 25100, confidence |-> RInt(75)],
                            [type |-> "PUT", strike |-> 25100, confidence |-> RInt(95)]}}

\* generate_trading_decision; risk_multiplier is the local of that name, <<>>
\* when the function returns before assigning it.
DecisionCall ==
    /\ call = NoCall
    /\ \E signals \in DecisionLists, label \in {"BULLISH", "BEARISH", "NEUTRAL"},
         regime \in {"HIGH", "MEDIUM", "LOW", "UNKNOWN"}, spot \in {0, 25000} :
        /\ call' = [fn |-> "generate_trading_decision", signals |-> signals,
                    sentiment |-> label, volatility_regime |-> regime,
                    spot_price |-> spot,
                    risk_multiplier |->
                        IF signals = <<>> THEN <<>>
                        ELSE <<RiskMultiplier(BestSignal(signals), [sentiment |-> label],
                                              [volatility_regime |-> regime])>>,
                    out |-> GenerateTradingDecision(signals, [sentiment |-> label],
                                [volatility_regime |-> regime], spot)]
        /\ UNCHANGED ledgerVars

\* The processed snapshots of a two-symbol batch, one strike at each spot.
BatchCycleOI == {<<500, 1800>>, <<1000, 100>>, <<1000, 1000>>}
BatchCycleMarket(symbol, spot, oi) ==
    [symbol |-> symbol, spot_price |-> spot, data |-> <<StrikeRecord(spot, oi, <<0, 0>>)>>]

\* The per-symbol loop of StrategyRunner on an empty ledger: the cycle of the
\* first symbol, then the cycle of the second on the ledger the first left.
BatchCyclesCall ==
    /\ call = NoCall
    /\ \E oi1 \in BatchCycleOI, oi2 \in BatchCycleOI :
        \E first \in {RunStrategyCycle(NewStrategy(default_params, default_capital),
                                       EmptyDatabase,
                                       BatchCycleMarket("NIFTY.NS", 25000, oi1))} :
        \E second \in {RunStrategyCycle(NewStrategy(default_params, default_capital),
                                        first.db,
                                        BatchCycleMarket("BANKNIFTY.NS", 52000, oi2))} :
            /\ call' = [fn |-> "batch_cycles",
                        markets |-> <<BatchCycleMarket("NIFTY.NS", 25000, oi1),
                                      BatchCycleMarket("BANKNIFTY.NS", 52000, oi2)>>,
                        db |-> second.db,
                        evaluated |-> <<first.evaluated, second.evaluated>>,
                        raised |-> <<first.raised, second.raised>>]
            /\ UNCHANGED ledgerVars

\* Positions tables of up to three rows: a row is OPEN, or CLOSED with a pnl and
\* an exit time of its own.
MetricsPnl == {-100, 50, 100}
MetricsRow(status, pnl, exit_time) ==
    [PositionRow(1, "NIFTY.NS", "LONG_CALL", 25000, 1, <<>>, <<>>)
        EXCEPT !.status = status, !.pnl = RInt(pnl), !.exit_time = exit_time,
               !.exit_price = IF status = "CLOSED" THEN <<25000 + pnl>> ELSE <<>>,
               !.exit_reason = IF status = "CLOSED" THEN <<"MANUAL">> ELSE <<>>]
MetricsRows ==
    {MetricsRow("OPEN", 0, <<>>)}
        \cup {MetricsRow("CLOSED", pnl, <<t>>) : pnl \in MetricsPnl, t \in 1..3}
MetricsTables ==
    {rows \in {<<>>} \cup {<<r>> : r \in MetricsRows}
                \cup {<<r1, r2>> : r1 \in MetricsRows, r2 \in MetricsRows}
                \cup {<<r1, r2, r3>> : r1 \in MetricsRows, r2 \in MetricsRows,
                                        r3 \in MetricsRows} :
        \A i \in 1..Len(rows) : \A j \in 1..Len(rows) :
            (i # j /\ rows[i].status = "CLOSED" /\ rows[j].status = "CLOSED")
                => rows[i].exit_time # rows[j].exit_time}

\* get_performance_metrics on a positions table, the window starting at since
MetricsCall ==
    /\ call = NoCall
    /\ \E rows \in MetricsTables, since \in {0, 2} :
        /\ call' = [fn |-> "get_performance_metrics", rows |-> rows, since |-> since,
                    out |-> GetPerformanceMetrics(rows, since)]
        /\ UNCHANGED ledgerVars

NextFn ==
    \/ DetectCall
    \/ ConfidencePairCall
    \/ PositionSizeCall
    \/ RoundTripCall
    \/ SentimentCall
    \/ ProcessCall
    \/ RunnerCall
    \/ ShouldExitCall
    \/ DecisionCall
    \/ BatchCyclesCall
    \/ MetricsCall

SpecFn == Init /\ [][NextFn]_vars

-----------------------------------------------------------------------------
(* Properties of the ledger state machine *)

IsCycle(l) == l.op = "run_strategy_cycle"

\* C2: whenever monitor_and_exit_positions evaluates an OPEN position whose
\* directional P&L% at the current spot is >= profit_target_pct, that position
\* is CLOSED with a target-hit reason at the end of the evaluation.
C2_TargetHitCloses ==
    IsCycle(last) =>
        \A k \in 1..Len(last.evaluated) :
            LET p == positions[last.evaluated[k].id]
            IN  RLe(strategy.profit_target_pct,
                    CalculateCurrentPnlPct(p, last.market.spot_price))
                => /\ p.status = "CLOSED"
                   /\ p.exit_reason = <<"Profit target hit">>

ExitFieldsAbsent(p) == p.exit_price = <<>> /\ p.exit_time = <<>> /\ p.exit_reason = <<>>
ExitFieldsPresent(p) == p.exit_price # <<>> /\ p.exit_time # <<>> /\ p.exit_reason # <<>>

\* C8: every position of the ledger is either OPEN with exit_price, exit_time
\* and exit_reason absent, or CLOSED with all of them present; never mixed.
C8_OpenXorClosed ==
    \A i \in 1..Len(positions) :
        \/ positions[i].status = "OPEN" /\ ExitFieldsAbsent(positions[i])
        \/ positions[i].status = "CLOSED" /\ ExitFieldsPresent(positions[i])

\* C8 witness: a cycle in which an exit was decided (close_position was called)
\* for a position of the ledger.
C8_Witness ==
    /\ IsCycle(last)
    /\ \E k \in 1..Len(last.evaluated) :
          last.evaluated[k].exit /\ last.evaluated[k].id \in 1..Len(positions)

-----------------------------------------------------------------------------
(* Properties of the pure functions *)

HasSignal(out, strike, type) ==
    /\ out.raised = NoRaise
    /\ \E k \in 1..Len(out.signals) :
          out.signals[k].strike = strike /\ out.signals[k].type = type

\* C1: with oi_ratio_threshold 2.0 and the other parameters at their defaults,
\* every strike inside the ATM window with call_oi > 0 gets a PUT signal iff
\* put_oi/call_oi < 0.5, a CALL signal iff put_oi/call_oi > 2.0 and no signal
\* otherwise; the three-strike example gives exactly PUT, PUT, CALL.
C1_DetectorBands ==
    (call.fn = "detect_extreme_oi_concentration" /\ call.self.oi_ratio_threshold = RInt(2)) =>
        /\ \A i \in 1..Len(call.strikes_data) :
              LET s == call.strikes_data[i]
              IN  (Abs(s.strike - call.spot_price) <= 300 /\ s.call_oi > 0) =>
                    /\ HasSignal(call.out, s.strike, "PUT") <=> 2 * s.put_oi < s.call_oi
                    /\ HasSignal(call.out, s.strike, "CALL") <=> s.put_oi > 2 * s.call_oi
        /\ call.strikes_data = ExampleChain =>
              /\ Len(call.out.signals) = 3
              /\ call.out.signals[1].type = "PUT"
              /\ call.out.signals[2].type = "PUT"
              /\ call.out.signals[3].type = "CALL"

\* C3: a position opened from a signal and evaluated against the snapshot that
\* produced the signal is never exited as OI normalized, for every
\* oi_ratio_threshold >= 1 and oi_normalization_threshold >= 1; every position
\* opened in the round trip is evaluated.
C3_RoundTripNotNormalized ==
    call.fn = "round_trip" =>
        /\ Len(call.out.evaluated) = call.out.results.positions_opened
        /\ \A k \in 1..Len(call.out.evaluated) :
              call.out.evaluated[k].reason # "OI normalized"

\* C3 witness: with both thresholds at 1.0, a PUT signal was executed and its
\* position evaluated in the same snapshot.
C3_Witness ==
    /\ call.fn = "round_trip"
    /\ call.threshold = 10 /\ call.normalization = 10
    /\ Len(call.out.signals) = 1 /\ call.out.signals[1].type = "PUT"
    /\ Len(call.out.evaluated) = 1

InPercentRange(x) == RLe(RInt(0), x) /\ RLe(x, RInt(100))

\* C4: calculate_market_sentiment returns, without raising, a score and a
\* confidence in [0, 100] for every list of records, and NEUTRAL / 50 / 0 for an
\* empty list or a zero total OI.
C4_SentimentBounded ==
    call.fn = "calculate_market_sentiment" =>
        /\ call.out.raised = NoRaise
        /\ InPercentRange(call.out.score)
        /\ InPercentRange(call.out.confidence)
        /\ (SumField(call.strikes_data, 1, "call") + SumField(call.strikes_data, 1, "put") = 0) =>
              /\ call.out.sentiment = "NEUTRAL"
              /\ call.out.score = RInt(50)
              /\ call.out.confidence = RInt(0)

AllZeroOI(rows) == \A i \in 1..Len(rows) : rows[i].call_oi + rows[i].put_oi = 0

\* C5: when every raw strike has zero total OI, process_options_data keeps no
\* record and yields sentiment NEUTRAL / 50 / 0, volatility regime UNKNOWN with
\* iv 0, and decision HOLD with position size 0.
C5_ZeroOIDefaults ==
    (call.fn = "process_options_data" /\ AllZeroOI(call.raw.data)) =>
        /\ call.out.raised = NoRaise
        /\ call.out.data = <<>>
        /\ call.out.sentiment.sentiment = "NEUTRAL"
        /\ call.out.sentiment.score = RInt(50)
        /\ call.out.sentiment.confidence = RInt(0)
        /\ call.out.volatility.volatility_regime = "UNKNOWN"
        /\ call.out.volatility.iv = RInt(0)
        /\ call.out.trading_decision.action = "HOLD"
        /\ call.out.trading_decision.position_size = RInt(0)

PairRatio(x) == Rat(x.put_oi, x.call_oi)

\* b is on the same side as a and at least as extreme.
AtLeastAsExtreme(threshold, a, b) ==
    \/ /\ RLt(PairRatio(a), RDiv(RInt(1), threshold))
       /\ RLe(PairRatio(b), PairRatio(a))
    \/ /\ RLt(threshold, PairRatio(a))
       /\ RLe(PairRatio(a), PairRatio(b))

\* C6: the signal confidence is at most 95 and, at a fixed distance from the
\* spot, does not decrease when the ratio becomes more extreme on its side and
\* the combined volume does not decrease, for every positive threshold.
C6_ConfidenceMonotone ==
    (/\ call.fn = "_calculate_signal_confidence"
     /\ AtLeastAsExtreme(call.self.oi_ratio_threshold, call.a, call.b)
     /\ call.a.volume <= call.b.volume) =>
        /\ call.out_a.raised = NoRaise /\ call.out_b.raised = NoRaise
        /\ RLe(call.out_a.value, RInt(95)) /\ RLe(call.out_b.value, RInt(95))
        /\ RLe(call.out_a.value, call.out_b.value)

\* C7: quantity = max(1, floor(capital * max_risk_per_trade/100 / (spot * 0.03))),
\* which is 2 for risk 2%, capital 100000 and spot 25000; stop 0.97*spot and
\* target 1.15*spot for CALL, 1.03*spot and 0.85*spot for PUT.
C7_PositionSize ==
    call.fn = "calculate_position_size" =>
        /\ call.out.quantity = MaxOf(1, (call.capital * call.risk) \div (30 * call.spot_price))
        /\ call.out.quantity >= 1
        /\ (call.risk = 20 /\ call.spot_price = 25000) => call.out.quantity = 2
        /\ call.type = "CALL" =>
              /\ call.out.stop_loss = Rat(97 * call.spot_price, 100)
              /\ call.out.target_price = Rat(115 * call.spot_price, 100)
        /\ call.type = "PUT" =>
              /\ call.out.stop_loss = Rat(103 * call.spot_price, 100)
              /\ call.out.target_price = Rat(85 * call.spot_price, 100)

\* C7 witness: a PUT sized at a spot so high that the quotient is below 1.
C7_Witness ==
    /\ call.fn = "calculate_position_size"
    /\ call.type = "PUT" /\ call.risk = 20 /\ call.spot_price = 70000
    /\ call.out.quantity = 1

InSeq(x, seq) == \E k \in 1..Len(seq) : seq[k] = x

\* C11: in a multi-symbol batch, an exception raised while processing one symbol
\* is caught and that symbol skipped: the batch ends without raising, every
\* symbol is fetched, and every symbol whose chain was fetched and whose own
\* processing does not raise is run through its strategy cycle.
C11_BatchIsolation ==
    call.fn = "strategy_runner" =>
        /\ call.out.raised = NoRaise
        /\ call.out.fetched = Len(call.symbols)
        /\ \A i \in 1..Len(call.symbols) :
              (/\ call.raws[i] # <<>>
               /\ ProcessOptionsData(call.raws[i][1], call.symbols[i]).raised = NoRaise)
                  => InSeq(call.symbols[i], call.out.cycled)

\* C12: a cycle on a snapshot whose spot_price is missing or 0, or whose strike
\* list is empty, does not raise; it returns all counts and total_pnl 0, saves no
\* snapshot, signal or position and leaves every existing position unchanged.
C12_EmptySnapshotIsNoOp ==
    [][(/\ IsCycle(last')
        /\ (last'.market.spot_price = 0 \/ last'.market.data = <<>>)) =>
            /\ last'.raised = NoRaise
            /\ last'.results = NoResults
            /\ market_data' = market_data
            /\ trading_signals' = trading_signals
            /\ positions' = positions]_vars

\* C12 witness: a cycle at spot 0 with a nonempty strike list ran over a ledger
\* that holds an open position.
C12_Witness ==
    /\ IsCycle(last)
    /\ last.market.spot_price = 0 /\ last.market.data # <<>>
    /\ \E i \in 1..Len(positions) : positions[i].status = "OPEN"

\* C13: a failure to save a signal, open a position or close a position is
\* surfaced as a None/False return and the cycle continues: no exception ends
\* the cycle once detection has returned its signals, every signal is executed
\* and every open position is evaluated.
C13_CycleContinues ==
    (IsCycle(last) /\ last.ran /\ last.raised # "ZeroDivisionError") =>
        /\ last.raised = NoRaise
        /\ last.results.positions_opened = Len(last.signals)
        /\ \A i \in 1..Len(positions) :
              positions[i].status = "OPEN" =>
                  \E k \in 1..Len(last.evaluated) : last.evaluated[k].id = i

\* C14: stored parameters change only in update_strategy_parameter, an
\* engine's thresholds are set only at construction (from the parameters stored
\* then), and a cycle detects with the thresholds of the engine that runs it,
\* whatever has been stored since: on a one-strike snapshot inside the window
\* with put_oi >= 1 the cycle detects a PUT signal iff put/call < 1/threshold
\* of the engine.
C14_ParametersFrame ==
    [][/\ strategy_parameters' # strategy_parameters
            => last'.op = "update_strategy_parameter"
       /\ strategy' # strategy => last'.op = "construct"
       /\ last'.op = "construct"
            => strategy' = NewStrategy(strategy_parameters, default_capital)
       /\ IsCycle(last') =>
            LET s == last'.market.data[1]
            IN  (\E k \in 1..Len(last'.signals) : last'.signals[k].type = "PUT")
                    <=> RLt(Rat(s.put_oi, s.call_oi),
                            RDiv(RInt(1), strategy.oi_ratio_threshold))]_vars

\* C14 witness: the stored threshold was raised to 3.0 after the engine was
\* constructed with 2.0, and the engine's next cycle still detected the signal
\* at put/call 0.4.
C14_Witness ==
    /\ IsCycle(last)
    /\ strategy_parameters.oi_ratio_threshold = 30
    /\ strategy.oi_ratio_threshold = RInt(2)
    /\ last.market.data[1].put_oi = 400
    /\ Len(last.signals) = 1

\* The normalization condition of a position against the record of its strike.
NormalizedAgainst(self, position, record) ==
    /\ record.call_oi > 0
    /\ \/ /\ position.position_type \in PutBetGroup
          /\ RLe(self.oi_normalization_threshold, Rat(record.put_oi, record.call_oi))
       \/ /\ position.position_type \in LongCallGroup
          /\ RLe(Rat(record.put_oi, record.call_oi),
                 RDiv(RInt(1), self.oi_normalization_threshold))

\* C15: in a strategy cycle, a position evaluated below its profit target whose
\* strike has a record with call_oi > 0 in the cycle's snapshot and whose
\* normalization condition holds there is exited with reason OI normalized.
C15_NormalizedInCycle ==
    IsCycle(last) =>
        \A k \in 1..Len(last.evaluated) :
            LET position == JoinedPosition(Database, last.evaluated[k].id)
                found == FindStrike(last.market.data, position.strike_price)
            IN  (/\ ~RLe(strategy.profit_target_pct,
                         CalculateCurrentPnlPct(position, last.market.spot_price))
                 /\ found # <<>>
                 /\ NormalizedAgainst(strategy, position, found[1]))
                    => /\ last.evaluated[k].exit
                       /\ last.evaluated[k].reason = "OI normalized"

\* The adverse crossing of a stored, nonzero stop level.
StopCrossed(position, current_spot) ==
    /\ position.stop_loss # <<>>
    /\ position.stop_loss[1] # RInt(0)
    /\ \/ /\ position.position_type \in LongCallGroup
          /\ RLe(RInt(current_spot), position.stop_loss[1])
       \/ /\ position.position_type \in PutBetGroup
          /\ RLe(position.stop_loss[1], RInt(current_spot))

\* C16: at a nonzero spot, when neither the profit target nor the OI
\* normalization condition holds, should_exit_position returns exit with the
\* stop-loss reason iff the position has a stop level and the spot has crossed
\* it adversely (spot <= stop for LONG_CALL/SHORT_PUT, spot >= stop for
\* SHORT_CALL/LONG_PUT), and hold otherwise.
C16_StopLossOrHold ==
    (/\ call.fn = "should_exit_position"
     /\ call.market.spot_price # 0
     /\ ~RLe(call.self.profit_target_pct,
             CalculateCurrentPnlPct(call.position, call.market.spot_price))
     /\ \A k \in 1..Len(StrikesDataOf(call.market)) :
           StrikesDataOf(call.market)[k].strike = call.position.strike_price
              => ~NormalizedAgainst(call.self, call.position, StrikesDataOf(call.market)[k])) =>
        IF StopCrossed(call.position, call.market.spot_price)
        THEN call.out.exit /\ call.out.reason = "Stop loss hit"
        ELSE ~call.out.exit /\ call.out.reason = "Hold position"

\* C16 witness: a LONG_PUT with stop 25750 evaluated at spot 25750, its strike
\* present and not normalized, is exited on the stop.
C16_Witness ==
    /\ call.fn = "should_exit_position"
    /\ call.position.position_type = "LONG_PUT"
    /\ call.position.stop_loss = <<RInt(25750)>>
    /\ call.market.spot_price = 25750
    /\ StrikesDataOf(call.market) # <<>>
    /\ StrikesDataOf(call.market)[1].strike = 25000
    /\ call.out.exit /\ call.out.reason = "Stop loss hit"

\* The type is the side to take against the concentrated side of the record.
AgainstConcentration(type, call_oi, put_oi) ==
    /\ type = "PUT" => call_oi > put_oi
    /\ type = "CALL" => put_oi > call_oi

\* C17: every signal of detect_extreme_oi_concentration and every signal of the
\* best-signal detector of process_options_data has type PUT only when call_oi >
\* put_oi at its strike and type CALL only when put_oi > call_oi; on the same
\* records the two detectors never emit opposite types for a strike.
C17_SignalAgainstConcentration ==
    /\ call.fn = "detect_extreme_oi_concentration" =>
          \A k \in 1..Len(call.out.signals) :
              AgainstConcentration(call.out.signals[k].type,
                                   call.out.signals[k].call_oi, call.out.signals[k].put_oi)
    /\ (call.fn = "process_options_data" /\ call.out.raised = NoRaise) =>
          /\ \A k \in 1..Len(call.out.signals) :
                \E i \in 1..Len(call.raw.data) :
                    /\ call.raw.data[i].strike = call.out.signals[k].strike
                    /\ RawRatio(call.raw.data[i]) = call.out.signals[k].oi_ratio
                    /\ AgainstConcentration(call.out.signals[k].type,
                                            call.raw.data[i].call_oi, call.raw.data[i].put_oi)
          /\ \A k \in 1..Len(call.out.signals) :
                \A j \in 1..Len(DetectExtremeOIConcentration(
                                    NewStrategy(default_params, default_capital),
                                    call.out.data, call.out.spot_price).signals) :
                    LET other == DetectExtremeOIConcentration(
                                     NewStrategy(default_params, default_capital),
                                     call.out.data, call.out.spot_price).signals[j]
                    IN  (other.strike = call.out.signals[k].strike
                         /\ other.oi_ratio = call.out.signals[k].oi_ratio)
                            => other.type = call.out.signals[k].type

IsDecision == call.fn = "generate_trading_decision"

MaxConfidence(signals) ==
    CHOOSE c \in {signals[i].confidence : i \in 1..Len(signals)} :
        \A i \in 1..Len(signals) : RLe(signals[i].confidence, c)

\* Some most confident signal of the list has the given type.
BestHasType(signals, type) ==
    \E i \in 1..Len(signals) :
        signals[i].confidence = MaxConfidence(signals) /\ signals[i].type = type

\* C18: the risk multiplier is 0.7 when the volatility regime is HIGH, otherwise
\* 1.2 when the sentiment agrees with the selected signal (BULLISH with CALL,
\* BEARISH with PUT), otherwise 1.0.
C18_RiskMultiplier ==
    (IsDecision /\ call.signals # <<>>) =>
        call.risk_multiplier =
            <<IF call.volatility_regime = "HIGH" THEN Rat(7, 10)
              ELSE IF \/ call.sentiment = "BULLISH" /\ BestHasType(call.signals, "CALL")
                      \/ call.sentiment = "BEARISH" /\ BestHasType(call.signals, "PUT")
              THEN Rat(12, 10)
              ELSE RInt(1)>>

\* C19: with no signals the decision is HOLD with confidence 60 and size 0;
\* otherwise it carries the highest confidence of the list: at confidence >= 80
\* with reward/risk >= min_reward_ratio it is BUY for a CALL and SELL for a PUT,
\* with risk level MEDIUM iff the size is above 5%; else at confidence >= 70 it
\* is WATCH with size 0; else HOLD with size 0.  The size never exceeds
\* max_position_size and is nonzero only for BUY/SELL.
C19_Decision ==
    IsDecision =>
        /\ RLe(call.out.position_size, RMul(engine_max_position_size, RInt(100)))
        /\ call.out.position_size # RInt(0) => call.out.action \in {"BUY", "SELL"}
        /\ IF call.signals = <<>>
           THEN /\ call.out.action = "HOLD"
                /\ call.out.confidence = RInt(60)
                /\ call.out.position_size = RInt(0)
           ELSE /\ call.out.confidence = MaxConfidence(call.signals)
                /\ IF /\ RLe(RInt(80), MaxConfidence(call.signals))
                      /\ RLe(engine_min_reward_ratio,
                             IF call.spot_price > 0 THEN Rat(6, 3) ELSE RInt(0))
                   THEN /\ call.out.action = "BUY" => BestHasType(call.signals, "CALL")
                        /\ call.out.action = "SELL" => BestHasType(call.signals, "PUT")
                        /\ call.out.action \in {"BUY", "SELL"}
                        /\ call.out.risk_level = "MEDIUM" <=> RLt(RInt(5), call.out.position_size)
                        /\ call.out.risk_level \in {"MEDIUM", "LOW"}
                   ELSE IF RLe(RInt(70), MaxConfidence(call.signals))
                   THEN call.out.action = "WATCH" /\ call.out.position_size = RInt(0)
                   ELSE call.out.action = "HOLD" /\ call.out.position_size = RInt(0)

\* C19 witness: of a CALL at 70 and a PUT at 95 the PUT is selected and sold
\* with a nonzero size.
C19_Witness ==
    /\ IsDecision
    /\ Len(call.signals) = 2
    /\ call.signals[1].type = "CALL" /\ call.signals[1].confidence = RInt(70)
    /\ call.signals[2].type = "PUT" /\ call.signals[2].confidence = RInt(95)
    /\ call.out.action = "SELL"
    /\ call.out.position_size # RInt(0)

\* C20: for records with call_oi + put_oi > 0, records with call_oi = 0 or
\* put_oi = 0 included, detect_extreme_oi_concentration completes without
\* raising; a record with call_oi = 0 yields no signal, and the signal of every
\* other record in the window is returned.
C20_DetectNeverRaises ==
    call.fn = "detect_extreme_oi_concentration" =>
        /\ call.out.raised = NoRaise
        /\ \A i \in 1..Len(call.strikes_data) :
              LET s == call.strikes_data[i]
              IN  /\ s.call_oi = 0 =>
                        ~\E k \in 1..Len(call.out.signals) :
                            call.out.signals[k].strike = s.strike
                            /\ call.out.signals[k].call_oi = 0
                  /\ (/\ s.call_oi > 0 /\ s.put_oi > 0
                      /\ Abs(s.strike - call.spot_price)
                            <= call.self.atm_strikes_limit * strike_interval) =>
                        \A k \in 1..Len(DetectOne(call.self, s, call.spot_price).signals) :
                            \E m \in 1..Len(call.out.signals) :
                                call.out.signals[m] =
                                    DetectOne(call.self, s, call.spot_price).signals[k]

\* C21: a cycle on a non-empty strike list at a nonzero spot persists the
\* snapshot, detects, executes every signal and then evaluates for exit every
\* position that is OPEN after the execution, whatever the strike records hold.
C21_EveryOpenPositionEvaluated ==
    (IsCycle(last) /\ last.market.data # <<>> /\ last.market.spot_price # 0) =>
        /\ last.ran
        /\ last.results.positions_opened = Len(last.signals)
        /\ \A i \in 1..Len(positions) :
              positions[i].status = "OPEN" =>
                  \E k \in 1..Len(last.evaluated) : last.evaluated[k].id = i

\* C22: the 'data' of process_options_data holds exactly the raw strikes with
\* call_oi + put_oi > 0 inside the ATM window, each once, ascending by
\* strike, none omitted, and every strike with a signal is in 'data'.
Qualifies(raw, spot_price) ==
    raw.call_oi + raw.put_oi > 0 /\ Abs(raw.strike - spot_price) <= 6 * 50

Occurrences(rows, r) == Cardinality({i \in 1..Len(rows) : rows[i] = r})

C22_DataIsTheAtmWindow ==
    (call # NoCall /\ call.fn = "process_options_data" /\ call.out.raised = NoRaise) =>
        /\ \A i \in 1..Len(call.out.data) : \A j \in i..Len(call.out.data) :
              call.out.data[i].strike <= call.out.data[j].strike
        /\ \A i \in 1..Len(call.out.data) :
              Qualifies(call.out.data[i], call.raw.underlyingValue)
        /\ \A i \in 1..Len(call.raw.data) :
              Qualifies(call.raw.data[i], call.raw.underlyingValue) =>
                  Occurrences(call.out.data, call.raw.data[i])
                      = Occurrences(call.raw.data, call.raw.data[i])
        /\ \A k \in 1..Len(call.out.signals) :
              \E i \in 1..Len(call.out.data) :
                  call.out.data[i].strike = call.out.signals[k].strike

\* C23: constructing TradingDatabase again on an existing store leaves the
\* parameter table as it is (no value set by update_strategy_parameter is
\* overwritten, no name is added twice) and changes no signal or position.
C23_ReconstructionKeepsTables ==
    [][last'.op = "construct" =>
          /\ strategy_parameters' = strategy_parameters
          /\ trading_signals' = trading_signals
          /\ positions' = positions]_vars

C23_Witness ==
    /\ last.op = "construct"
    /\ strategy_parameters.oi_ratio_threshold # default_params.oi_ratio_threshold
    /\ positions # <<>>

\* C24: a second run_strategy_cycle on the same snapshot, whose first run
\* yielded k >= 1 signals, again persists k signals and opens k positions: an
\* OPEN position at a strike does not prevent a second one.
C24_RerunDuplicates ==
    [][(/\ IsCycle(last) /\ IsCycle(last')
        /\ last'.market = last.market
        /\ Len(last.signals) >= 1
        /\ last.results.positions_opened = Len(last.signals)) =>
           /\ last'.signals = last.signals
           /\ last'.results.positions_opened = Len(last.signals)
           /\ Len(trading_signals') = Len(trading_signals) + Len(last.signals)
           /\ Len(positions') = Len(positions) + Len(last.signals)
           /\ \A i \in (Len(positions) + 1)..Len(positions') :
                 positions'[i].status = "OPEN"]_vars

C24_Witness ==
    /\ IsCycle(last)
    /\ last.results.positions_opened = 1
    /\ Len(positions) = 2 /\ Len(trading_signals) = 2
    /\ trading_signals[1] = trading_signals[2]
    /\ positions[1].status = "OPEN" /\ positions[2].status = "OPEN"
    /\ positions[1].symbol = positions[2].symbol
    /\ positions[1].entry_price = positions[2].entry_price
    /\ positions[1].signal_id = 1 /\ positions[2].signal_id = 2

\* C25: in a batch over several symbols, the cycle of one symbol evaluates
\* for exit (and so closes) only positions of that symbol, never a position
\* opened for another symbol on the basis of this symbol's spot or strikes.
C25_OwnSymbolOnly ==
    (call # NoCall /\ call.fn = "batch_cycles") =>
        \A c \in 1..2 : \A k \in 1..Len(call.evaluated[c]) :
            call.db.positions[call.evaluated[c][k].id].symbol = call.markets[c].symbol

\* C26: on every ledger the engine's cycles produce, each position references
\* exactly one persisted signal, no signal is referenced by two positions, and
\* a signal is EXECUTED iff a position references it.
C26_SignalConsumedOnce ==
    /\ \A i \in 1..Len(positions) : positions[i].signal_id \in 1..Len(trading_signals)
    /\ \A i \in 1..Len(positions) : \A j \in 1..Len(positions) :
          positions[i].signal_id = positions[j].signal_id => i = j
    /\ \A s \in 1..Len(trading_signals) :
          trading_signals[s].status = "EXECUTED"
              <=> \E i \in 1..Len(positions) : positions[i].signal_id = s

C26_Witness ==
    /\ IsCycle(last) /\ last.results.positions_opened = 1
    /\ Len(positions) = 2 /\ Len(trading_signals) = 2
    /\ trading_signals[2].status = "EXECUTED"
    /\ positions[2].signal_id = 2

\* C27: close_position on a stored position records the exit price and a
\* pnl_percentage equal to _calculate_current_pnl_pct(position, exit_price),
\* with pnl of the same sign, for every position type.
C27_RecordedPnlIsDirectional ==
    (last.op = "close_position" /\ last.position_id \in 1..Len(positions)) =>
        LET p == positions[last.position_id]
        IN  /\ p.exit_price = <<last.exit_price>>
            /\ p.pnl_percentage = CalculateCurrentPnlPct(p, last.exit_price)
            /\ RLt(RInt(0), p.pnl) <=> RLt(RInt(0), p.pnl_percentage)

\* C28: get_performance_metrics returns, over the CLOSED positions of the
\* window, total_trades = their count, total_pnl = the sum of their pnl,
\* win_rate = 100 * wins / count, and max_drawdown = the largest peak-to-trough
\* decline (<= 0) of the cumulative P&L in chronological order of exit (the
\* curve starting at the first exit or at 0 before it); every metric is 0 when
\* the window holds no closed position.
InWindow(rows, since) ==
    {i \in 1..Len(rows) : rows[i].status = "CLOSED" /\ rows[i].exit_time[1] >= since}

\* The cumulative P&L of the window up to and including exit time t.
RECURSIVE PnlOver(_, _)
PnlOver(rows, ids) ==
    IF ids = {} THEN 0
    ELSE LET i == CHOOSE x \in ids : TRUE
         IN  rows[i].pnl[1] + PnlOver(rows, ids \ {i})

CumulativeAt(rows, since, t) ==
    PnlOver(rows, {i \in InWindow(rows, since) : rows[i].exit_time[1] <= t})

ExitTimes(rows, since) == {rows[i].exit_time[1] : i \in InWindow(rows, since)}

\* d is the largest decline from a peak to a later (or the same) point of the
\* curve whose points are taken at the exit times in T.
IsPeakToTrough(rows, since, T, d) ==
    /\ \A t1 \in T : \A t2 \in T :
          t1 <= t2 => d <= CumulativeAt(rows, since, t2) - CumulativeAt(rows, since, t1)
    /\ \E t1 \in T : \E t2 \in T :
          t1 <= t2 /\ d = CumulativeAt(rows, since, t2) - CumulativeAt(rows, since, t1)

C28_CountsAndSums ==
    (call # NoCall /\ call.fn = "get_performance_metrics") =>
        LET ids == InWindow(call.rows, call.since)
            wins == {i \in ids : call.rows[i].pnl[1] > 0}
        IN  IF ids = {}
            THEN /\ call.out.total_trades = 0 /\ call.out.winning_trades = 0
                 /\ call.out.win_rate = RInt(0) /\ call.out.total_pnl = RInt(0)
                 /\ call.out.max_drawdown = RInt(0)
            ELSE /\ call.out.total_trades = Cardinality(ids)
                 /\ call.out.total_pnl = RInt(PnlOver(call.rows, ids))
                 /\ call.out.win_rate
                        = Round(Rat(100 * Cardinality(wins), Cardinality(ids)), 100)

SentinelSignals(out, raw) ==
    {k \in 1..Len(out.signals) :
        \E i \in 1..Len(raw.data) :
            /\ raw.data[i].strike = out.signals[k].strike
            /\ raw.data[i].call_oi = 0 /\ raw.data[i].put_oi > 0
            /\ out.signals[k].oi_ratio = RInt(0)}

C30_SentinelKeepsDirection ==
    (call # NoCall /\ call.fn = "process_options_data" /\ call.out.raised = NoRaise) =>
        /\ \A i \in 1..Len(call.raw.data) :
              (/\ call.raw.data[i].call_oi = 0 /\ call.raw.data[i].put_oi > 0
               /\ IsAtmStrike(call.raw.data[i], call.raw.underlyingValue))
                  => \E k \in SentinelSignals(call.out, call.raw) :
                        call.out.signals[k].strike = call.raw.data[i].strike
        /\ \A k \in SentinelSignals(call.out, call.raw) :
              \A j \in 1..Len(call.out.signals) :
                  /\ RLt(Rat(5, 2), call.out.signals[j].oi_ratio)
                        => call.out.signals[k].type = call.out.signals[j].type
                  /\ (RLt(RInt(0), call.out.signals[j].oi_ratio)
                        /\ RLt(call.out.signals[j].oi_ratio, Rat(4, 10)))
                        => call.out.signals[k].type # call.out.signals[j].type

====
